---- MODULE Spec2Model ----
(***************************************************************************)
(* A model of darkgreybox/fit.py: train_models, train_model,               *)
(* reduce_results_df and get_ic_params.                                    *)
(*                                                                         *)
(* Values that pandas/numpy keep in one column are tagged pairs, so that   *)
(* the missing marker, infinities, numbers and objects stay comparable:    *)
(*   <<"nan", 0>>  <<"inf", 1>>  <<"inf", -1>>  <<"num", v>>  <<"obj", id>> *)
(***************************************************************************)
EXTENDS Integers, Sequences, FiniteSets, TLC

VARIABLES
    models,     \* train_models: list of base model objects (heap ids)
    splits,     \* train_models: [isNone, items]; items is a list of (label, idx)
    n_jobs,     \* train_models: parallelism degree
    method,     \* train_models / train_model: the method name
    pc,         \* per submitted task: position inside train_model
    start,      \* per task: train_model's local `start`
    model,      \* per task: train_model's local `model` (heap id, 0 before the copy)
    frag,       \* per task: the returned one-row DataFrame (<<>> before)
    heap,       \* the model objects: id -> [tmpl, params, fitargs]
    oracle,     \* what the external fit/predict/metric do for (template, window)
    status,     \* the train_models call: "running", "returned", "raised"
    exc,        \* the exception that left train_models ("" if none)
    df,         \* the returned table
    ncall,      \* number of the train_models call in progress
    prev,       \* the table of the previous call, models dereferenced
    now,        \* the reading timer() gives
    completed,  \* the pool: the tasks in the order they completed
    overtaken,  \* history: a task of the last call completed before an earlier one
    rdf,        \* reduce_results_df: its argument df
    decimals,   \* reduce_results_df: its argument decimals
    rout,       \* reduce_results_df: [done, rows]
    icp,        \* get_ic_params: model.params (the set of its keys)
    iccols,     \* get_ic_params: the columns of X_train
    icwin,      \* get_ic_params: the row positions of X_train
    icout       \* get_ic_params / train_model on it: [done, raised, value, tm]

vars == <<models, splits, n_jobs, method, pc, start, model, frag, heap, oracle,
          status, exc, df, ncall, prev, now,
          completed, overtaken, rdf, decimals, rout, icp, iccols, icwin, icout>>

trainVars == <<models, splits, n_jobs, method, pc, start, model, frag, heap, oracle,
               status, exc, df, ncall, prev, now, completed, overtaken>>
reduceVars == <<rdf, decimals, rout>>
icVars == <<icp, iccols, icwin, icout>>

(***************************************************************************)
(* Bounds of the model.                                                    *)
(***************************************************************************)
MaxModels == 2      \* longest list of models
MaxSplits == 2      \* longest list of splits
MaxClock == 1       \* largest reading of the timer
NCpu == 2           \* workers of the pool when n_jobs = -1

(***************************************************************************)
(* Tagged values.                                                          *)
(***************************************************************************)
NaN == <<"nan", 0>>
PosInf == <<"inf", 1>>
NegInf == <<"inf", -1>>
Num(v) == <<"num", v>>
Obj(id) == <<"obj", id>>

(***************************************************************************)
(* The training data: a table X_train of two rows with a time index, and   *)
(* the target y_train.  Row positions are 1-based here (0-based in pandas).*)
(***************************************************************************)
Ti0 == <<"T", "i", "0">>
Te0 == <<"T", "e", "0">>
Ph == <<"P", "h">>
Ci == <<"C", "i">>
Ria == <<"R", "i", "a">>
A10 == <<"A", "1", "0">>

Rows == {1, 2}
X_index == [r \in Rows |-> 100 + 7 * r]
X_columns == {Ti0, Ph, A10}
AllColumns == {Ti0, Te0, Ph, A10}
X_cell(col, r) == 10 * Len(col) + 3 * r + (IF col[1] = "T" THEN 1 ELSE 0)
y_train == [r \in Rows |-> 20 + r]

\* A window X_train.iloc[idx]: the sequence idx of row positions, without repeats.
Windows ==
    {w \in UNION {[1..n -> Rows] : n \in 1..Cardinality(Rows)} :
        \A i, j \in DOMAIN w : i # j => w[i] # w[j]}

\* a range that stops one row short
FullRange_short == [i \in 1..(Cardinality(Rows) - 1) |-> i]

\* range(len(X_train))
FullRange == [i \in 1..Cardinality(Rows) |-> i]

(***************************************************************************)
(* The candidate models.  A model object lives on the heap:                *)
(*   tmpl    its class, params  "initial" / "fitted" / "mutated",          *)
(*   fitargs the arguments of the fit that produced it (<<>> if none).     *)
(* Three base objects exist, one per class.                                *)
(***************************************************************************)
Templates == <<"Ti", "R", "TiTe">>
BaseIds == 1..Len(Templates)
NBase == Len(Templates)
MaxTasks == MaxSplits * MaxModels
ObjIds == 1..(NBase + 2 * MaxTasks)
FreeObj == [tmpl |-> "", params |-> "free", fitargs |-> <<>>]
BaseObj(id) == [tmpl |-> Templates[id], params |-> "initial", fitargs |-> <<>>]

\* model.params: the parameter names of a model class
ParamKeys(tmpl) ==
    CASE tmpl = "Ti" -> {Ti0, Ci}
      [] tmpl = "R" -> {Ria}
      [] tmpl = "TiTe" -> {Ti0, Te0, Ci}
      [] OTHER -> {}

(***************************************************************************)
(* get_ic_params(model, X_train): params is the key set of model.params,   *)
(* cols the columns of X_train and w its row positions.  The loop raises   *)
(* KeyError at the first flagged key that is no column.                    *)
(***************************************************************************)
InKey(ch, key) == \E i \in DOMAIN key : key[i] = ch

\* X_train.iloc[-1]: the last row of the window
iloc_last(w) == w[Len(w)]

\* X_train.iloc[0]: the first row of the window
iloc_0(w) == w[1]

get_ic_params(params, cols, w) ==
    LET flagged == {key \in params : InKey("0", key)}
    IN  IF \E key \in flagged : key \notin cols
        THEN [raised |-> "KeyError", value |-> <<>>]
        ELSE [raised |-> "", value |-> [key \in flagged |-> X_cell(key, iloc_0(w))]]

(***************************************************************************)
(* train_model                                                             *)
(***************************************************************************)
\* a handler that catches nothing, and a bare `except:`
Caught_nothing(e) == FALSE
Caught_all(e) == TRUE

\* `except ValueError`: the exceptions the handler of train_model catches
Caught(e) == e = "ValueError"

\* no copy: the base model itself
deepcopy_alias(base, fresh) == base

\* copy.deepcopy(base_model): the reference it returns, given a fresh object
deepcopy(base, fresh) == fresh

\* end - start
Elapsed(s, e) == e - s

\* X_train.index[0] taken for the end date too
EndDate_first(w) == X_index[w[1]]

\* X_train.index[0], X_train.index[-1] of the window w
StartDate(w) == X_index[w[1]]
EndDate(w) == X_index[w[Len(w)]]

\* the one-row DataFrame of the except branch
FailedFrame(w, s, e, meth) ==
    << [index |-> 0, start_date |-> StartDate(w), end_date |-> EndDate(w),
        model |-> NaN, model_result |-> NaN, time |-> Elapsed(s, e),
        method |-> meth, error |-> NaN] >>

\* the one-row DataFrame of the success path
FittedFrame(w, s, e, meth, m, res, err) ==
    << [index |-> 0, start_date |-> StartDate(w), end_date |-> EndDate(w),
        model |-> Obj(m), model_result |-> res, time |-> Elapsed(s, e),
        method |-> meth, error |-> err] >>

\* The external collaborators.  model.predict(X_train).Z for a fitted model of
\* class tmpl, and the error metric (sum of absolute differences).
Bias(tmpl) == IF tmpl = "Ti" THEN 1 ELSE 2
PredictZ(tmpl, w) == [j \in DOMAIN w |-> y_train[w[j]] + Bias(tmpl) * j]
YValues(w) == [j \in DOMAIN w |-> y_train[w[j]]]
Abs(x) == IF x < 0 THEN -x ELSE x
RECURSIVE SumAbsDiff(_, _, _)
SumAbsDiff(a, b, n) == IF n = 0 THEN 0 ELSE Abs(a[n] - b[n]) + SumAbsDiff(a, b, n - 1)
error_metric(y, z) == SumAbsDiff(y, z, Len(y))

\* What fit / predict / the metric do on (class, window): fixed the first time
\* the pair is fitted, the same ever after (deterministic collaborators).
Outcomes == {"ok", "fit:ValueError", "fit:RuntimeError", "predict:ValueError",
             "metric:ValueError"}
OracleKeys == {<<Templates[b], w>> : b \in BaseIds, w \in Windows}

(***************************************************************************)
(* train_models                                                            *)
(***************************************************************************)
NoLabel == 0

\* splits or [(None, range(len(X_train)))]
SplitsOrDefault(s) ==
    IF s.isNone \/ s.items = <<>> THEN << <<NoLabel, FullRange>> >> ELSE s.items

\* the generator: for _, idx in ... for model in models
Submitted(ms, s) ==
    LET sp == SplitsOrDefault(s)
        m == Len(ms)
    IN  [t \in 1..(Len(sp) * m) |->
            [idx |-> sp[((t - 1) \div m) + 1][2], base |-> ms[((t - 1) % m) + 1]]]

Tasks == Submitted(models, splits)
NTasks == Len(Tasks)

\* pd.concat(frames, ignore_index=True)
Concat(frames) == [i \in DOMAIN frames |-> [frames[i][1] EXCEPT !.index = i - 1]]

\* Parallel(n_jobs=n_jobs): the number of tasks that may run at once
PoolSize(n) == IF n = -1 THEN NCpu ELSE n

Running == {i \in DOMAIN pc : pc[i] \in {"copied", "fitted"}}

\* Task i may start: serially after all earlier ones returned; from a pool in
\* submission order, while a worker is free.
MayStart(i) ==
    /\ pc[i] = "queued"
    /\ \A j \in 1..(i - 1) : pc[j] # "queued"
    /\ IF n_jobs # 1
       THEN Cardinality(Running) < PoolSize(n_jobs)
       ELSE \A j \in 1..(i - 1) : pc[j] = "done"

FreshId(i) == NBase + (ncall - 1) * MaxTasks + i

Raise(e) ==
    /\ status' = "raised"
    /\ exc' = e
    /\ completed' = <<>>

\* lines 92-93: start = timer(); model = copy.deepcopy(base_model)
TM_Start(i) ==
    /\ status = "running"
    /\ MayStart(i)
    /\ LET ref == deepcopy(Tasks[i].base, FreshId(i))
       IN  /\ model' = [model EXCEPT ![i] = ref]
           /\ heap' = [heap EXCEPT ![ref] = heap[Tasks[i].base]]
    /\ start' = [start EXCEPT ![i] = now]
    /\ pc' = [pc EXCEPT ![i] = "copied"]
    /\ UNCHANGED <<models, splits, n_jobs, method, frag, oracle, status, exc, df,
                   ncall, prev, now, completed, overtaken>>

\* the exception fit raises under outcome o ("" if it returns)
FitRaises(o) ==
    CASE o = "fit:ValueError" -> "ValueError"
      [] o = "fit:RuntimeError" -> "RuntimeError"
      [] OTHER -> ""

\* lines 95-108: the try block (get_ic_params, then fit) and its handler
TM_Fit(i) ==
    /\ status = "running"
    /\ pc[i] = "copied"
    /\ LET w == Tasks[i].idx
           obj == heap[model[i]]
           key == <<obj.tmpl, w>>
           ic == get_ic_params(ParamKeys(obj.tmpl), X_columns, w)
       IN  \E o \in Outcomes :
             LET e == IF ic.raised # "" THEN ic.raised ELSE FitRaises(o)
             IN  /\ IF ic.raised # ""
                    THEN o = "ok" /\ UNCHANGED oracle
                    ELSE /\ oracle[key] \in {"unset", o}
                         /\ oracle' = [oracle EXCEPT ![key] = o]
                 /\ IF e = ""
                    THEN \* fit returned the fitted model
                         /\ heap' = [heap EXCEPT ![model[i]] =
                                       [obj EXCEPT !.params = "fitted",
                                                   !.fitargs = <<w, method, ic.value>>]]
                         /\ pc' = [pc EXCEPT ![i] = "fitted"]
                         /\ UNCHANGED <<frag, status, exc, completed, start>>
                    ELSE IF Caught(e)
                    THEN \* except ValueError: the record of a failed fit
                         /\ frag' = [frag EXCEPT ![i] =
                                       FailedFrame(w, start[i], now, method)]
                         /\ pc' = [pc EXCEPT ![i] = "done"]
                         /\ start' = [start EXCEPT ![i] = 0]
                         /\ completed' = Append(completed, i)
                         /\ UNCHANGED <<heap, status, exc>>
                    ELSE \* any other exception leaves train_model
                         /\ Raise(e)
                         /\ UNCHANGED <<pc, frag, heap, start>>
    /\ UNCHANGED <<models, splits, n_jobs, method, model, df, ncall, prev, now,
                   overtaken>>

\* lines 110-119: predict, the second timer reading, the metric, the record
TM_Finish(i) ==
    /\ status = "running"
    /\ pc[i] = "fitted"
    /\ LET w == Tasks[i].idx
           obj == heap[model[i]]
           o == oracle[<<obj.tmpl, w>>]
           z == PredictZ(obj.tmpl, w)
       IN  CASE o = "predict:ValueError" ->
                  /\ Raise("ValueError")
                  /\ UNCHANGED <<pc, frag, start>>
             [] o = "metric:ValueError" ->
                  /\ Raise("ValueError")
                  /\ UNCHANGED <<pc, frag, start>>
             [] OTHER ->
                  /\ frag' = [frag EXCEPT ![i] =
                                FittedFrame(w, start[i], now, method, model[i],
                                            <<"pred", z>>, Num(error_metric(YValues(w), z)))]
                  /\ pc' = [pc EXCEPT ![i] = "done"]
                  /\ start' = [start EXCEPT ![i] = 0]
                  /\ completed' = Append(completed, i)
                  /\ UNCHANGED <<status, exc>>
    /\ UNCHANGED <<models, splits, n_jobs, method, model, heap, oracle, df,
                   ncall, prev, now, overtaken>>

\* the list the pool hands back, in the order the tasks completed
Collect_completion(frames, order) == [k \in DOMAIN order |-> frames[order[k]]]

\* p(delayed(train_model)(...) for ...): the list Parallel.__call__ hands back,
\* the results in the order the tasks were submitted
Collect(frames, order) == frames

InOrder(order) == \A k \in DOMAIN order : order[k] = k

\* lines 60-61, 64-67: every task returned; pd.concat raises ValueError on an
\* empty list ("No objects to concatenate")
ConcatReturn ==
    /\ status = "running"
    /\ \A i \in DOMAIN pc : pc[i] = "done"
    /\ IF NTasks = 0
       THEN Raise("ValueError") /\ UNCHANGED <<df, overtaken>>
       ELSE /\ df' = Concat(IF n_jobs # 1 THEN Collect(frag, completed) ELSE frag)
            /\ status' = "returned"
            /\ overtaken' = ~InOrder(completed)
            /\ completed' = <<>>
            /\ UNCHANGED exc
    /\ UNCHANGED <<models, splits, n_jobs, method, pc, start, model, frag, heap, oracle,
                   ncall, prev, now>>

\* time passes
Tick ==
    /\ status = "running"
    /\ now < MaxClock
    /\ now' = now + 1
    /\ UNCHANGED <<models, splits, n_jobs, method, pc, start, model, frag, heap, oracle,
                   status, exc, df, ncall, prev, completed, overtaken>>

\* the caller changes the parameters of one fitted model of the returned table
MutateFitted(r) ==
    /\ status = "returned"
    /\ r \in DOMAIN df
    /\ df[r].model # NaN
    /\ \A id \in ObjIds : heap[id].params # "mutated"
    /\ heap' = [heap EXCEPT ![df[r].model[2]].params = "mutated"]
    /\ UNCHANGED <<models, splits, n_jobs, method, pc, start, model, frag, oracle,
                   status, exc, df, ncall, prev, now, completed, overtaken>>

(***************************************************************************)
(* One call of train_models on every input within the bounds.              *)
(***************************************************************************)
SeqsUpTo(S, n) == UNION {[1..k -> S] : k \in 0..n}
SplitChoices ==
    {[isNone |-> TRUE, items |-> <<>>]} \cup
    {[isNone |-> FALSE, items |-> it] :
        it \in SeqsUpTo({<<NoLabel, w>> : w \in Windows}, MaxSplits)}
Methods == {"nelder", "powell"}

InitHeap == [id \in ObjIds |-> IF id \in BaseIds THEN BaseObj(id) ELSE FreeObj]

IdleReduce == rdf = <<>> /\ decimals = 0 /\ rout = [done |-> FALSE, rows |-> <<>>]
IdleIc == icp = {} /\ iccols = {} /\ icwin = <<1>>
          /\ icout = [done |-> FALSE, raised |-> "", value |-> <<>>, tm |-> ""]

InitTrain(jobs) ==
    /\ models \in SeqsUpTo(BaseIds, MaxModels)
    /\ splits \in SplitChoices
    /\ n_jobs \in jobs
    /\ method \in Methods
    /\ pc = [i \in 1..NTasks |-> "queued"]
    /\ start = [i \in 1..NTasks |-> 0]
    /\ model = [i \in 1..NTasks |-> 0]
    /\ frag = [i \in 1..NTasks |-> <<>>]
    /\ heap = InitHeap
    /\ oracle = [k \in OracleKeys |-> "unset"]
    /\ status = "running"
    /\ exc = ""
    /\ df = <<>>
    /\ ncall = 1
    /\ prev = <<>>
    /\ now = 0
    /\ completed = <<>>
    /\ overtaken = FALSE

Init == InitTrain({1, -1}) /\ IdleReduce /\ IdleIc

Next ==
    \/ \E i \in DOMAIN pc : TM_Start(i) /\ UNCHANGED <<reduceVars, icVars>>
    \/ \E i \in DOMAIN pc : TM_Fit(i) /\ UNCHANGED <<reduceVars, icVars>>
    \/ \E i \in DOMAIN pc : TM_Finish(i) /\ UNCHANGED <<reduceVars, icVars>>
    \/ ConcatReturn /\ UNCHANGED <<reduceVars, icVars>>
    \/ Tick /\ UNCHANGED <<reduceVars, icVars>>
    \/ \E r \in DOMAIN df : MutateFitted(r) /\ UNCHANGED <<reduceVars, icVars>>

Spec == Init /\ [][Next]_vars

(***************************************************************************)
(* Two calls of train_models on the same inputs: serially, then with a     *)
(* worker pool.                                                            *)
(***************************************************************************)
\* a table with every model replaced by the state of the object it refers to
Deref(t) ==
    [i \in DOMAIN t |->
        [t[i] EXCEPT !.model =
            IF t[i].model = NaN THEN NaN
            ELSE <<"model", heap[t[i].model[2]].tmpl, heap[t[i].model[2]].params,
                   heap[t[i].model[2]].fitargs>>]]

\* the caller keeps the first table and calls train_models again with n_jobs=-1
SecondCall ==
    /\ status = "returned"
    /\ ncall = 1
    /\ prev' = Deref(df)
    /\ ncall' = 2
    /\ n_jobs' = -1
    /\ pc' = [i \in 1..NTasks |-> "queued"]
    /\ start' = [i \in 1..NTasks |-> 0]
    /\ model' = [i \in 1..NTasks |-> 0]
    /\ frag' = [i \in 1..NTasks |-> <<>>]
    /\ status' = "running"
    /\ df' = <<>>
    /\ overtaken' = FALSE
    /\ UNCHANGED <<models, splits, method, heap, oracle, exc, now, completed>>

InitPair == InitTrain({1}) /\ IdleReduce /\ IdleIc

NextPair ==
    \/ \E i \in DOMAIN pc : TM_Start(i) /\ UNCHANGED <<reduceVars, icVars>>
    \/ \E i \in DOMAIN pc : TM_Fit(i) /\ UNCHANGED <<reduceVars, icVars>>
    \/ \E i \in DOMAIN pc : TM_Finish(i) /\ UNCHANGED <<reduceVars, icVars>>
    \/ ConcatReturn /\ UNCHANGED <<reduceVars, icVars>>
    \/ Tick /\ UNCHANGED <<reduceVars, icVars>>
    \/ SecondCall /\ UNCHANGED <<reduceVars, icVars>>

SpecPair == InitPair /\ [][NextPair]_vars

(***************************************************************************)
(* reduce_results_df(df, decimals).  An error value v stands for the       *)
(* decimal number v / 10^MaxDecimals.                                      *)
(***************************************************************************)
MaxRows == 3        \* longest table handed to reduce_results_df
MaxTime == 1        \* largest elapsed time in such a table
MaxDecimals == 1    \* decimal digits an error value carries

RECURSIVE Pow10(_)
Pow10(n) == IF n <= 0 THEN 1 ELSE 10 * Pow10(n - 1)

\* numpy's round to d decimals: to the nearest multiple of the unit, halves to
\* the even multiple
RoundHalfEven(v, d) ==
    LET unit == Pow10(MaxDecimals - d)
        q == v \div unit
        r == v % unit
    IN  IF 2 * r < unit THEN q * unit
        ELSE IF 2 * r > unit THEN (q + 1) * unit
        ELSE IF q % 2 = 0 THEN q * unit ELSE (q + 1) * unit

Columns == {"start_date", "end_date", "model", "model_result", "time", "method", "error"}
IsInf(x) == x = PosInf \/ x = NegInf
HasNaN(row) == row.model = NaN \/ row.model_result = NaN \/ row.error = NaN

\* .replace([-np.inf], np.nan): only the negative infinity
ReplaceInf_negOnly(t) ==
    [i \in DOMAIN t |-> IF t[i].error = NegInf THEN [t[i] EXCEPT !.error = NaN] ELSE t[i]]

\* .replace([-np.inf, np.inf], np.nan)
ReplaceInf(t) ==
    [i \in DOMAIN t |-> IF IsInf(t[i].error) THEN [t[i] EXCEPT !.error = NaN] ELSE t[i]]

\* .dropna()
NotNaN(row) == ~HasNaN(row)
DropNa(t) == SelectSeq(t, NotNaN)

\* .round({'error': decimals})
RoundError(t, d) ==
    [i \in DOMAIN t |->
        IF t[i].error[1] = "num"
        THEN [t[i] EXCEPT !.error = Num(RoundHalfEven(t[i].error[2], d))]
        ELSE t[i]]

\* .sort_values(col): the default sort is not stable, so every arrangement of
\* the rows that is ascending in the column is a possible result
SortKey(row, col) == IF col = "error" THEN row.error[2] ELSE row[col]
Arrangements(n) == {p \in [1..n -> 1..n] : \A i, j \in 1..n : i # j => p[i] # p[j]}
SortValues(t, col) ==
    {[i \in DOMAIN t |-> t[p[i]]] : p \in
        {q \in Arrangements(Len(t)) : \A i, j \in 1..Len(t) :
            i < j => SortKey(t[q[i]], col) <= SortKey(t[q[j]], col)}}

\* .drop_duplicates(subset=['error'], keep='last')
DropDuplicates_last(t) ==
    LET Last(i) == \A j \in (i + 1)..Len(t) : t[j].error # t[i].error
        F[i \in 0..Len(t)] ==
            IF i = 0 THEN <<>>
            ELSE IF Last(i) THEN Append(F[i - 1], t[i]) ELSE F[i - 1]
    IN  F[Len(t)]

\* .drop_duplicates(subset=['error'], keep='first')
DropDuplicates(t) ==
    LET First(i) == \A j \in 1..(i - 1) : t[j].error # t[i].error
        F[i \in 0..Len(t)] ==
            IF i = 0 THEN <<>>
            ELSE IF First(i) THEN Append(F[i - 1], t[i]) ELSE F[i - 1]
    IN  F[Len(t)]

\* .reset_index(drop=True)
ResetIndex(t) == [i \in DOMAIN t |-> [t[i] EXCEPT !.index = i - 1]]

\* lines 123-129
reduce_results_df ==
    /\ ~rout.done
    /\ \E byTime \in SortValues(RoundError(DropNa(ReplaceInf(rdf)), decimals), "time") :
         \E byError \in SortValues(DropDuplicates(byTime), "error") :
            rout' = [done |-> TRUE, rows |-> ResetIndex(byError)]
    /\ UNCHANGED <<rdf, decimals>>

\* The tables handed to it: rows of train_models, record i of a failed fit or
\* of a fit with a finite or infinite error.
ErrorValues == {6, 14, 15, 25}
RowKinds == {NaN, PosInf, NegInf} \cup {Num(v) : v \in ErrorValues}
TableRow(i, kind, t) ==
    [index |-> i - 1, start_date |-> X_index[1], end_date |-> X_index[2],
     model |-> IF kind = NaN THEN NaN ELSE Obj(i),
     model_result |-> IF kind = NaN THEN NaN ELSE <<"pred", i>>,
     time |-> t, method |-> "nelder", error |-> kind]
IdleTrain ==
    /\ models = <<>> /\ splits = [isNone |-> TRUE, items |-> <<>>]
    /\ n_jobs = 1 /\ method = "nelder"
    /\ pc = <<>> /\ start = <<>> /\ model = <<>> /\ frag = <<>>
    /\ heap = InitHeap /\ oracle = [k \in OracleKeys |-> "unset"]
    /\ status = "idle" /\ exc = "" /\ df = <<>> /\ ncall = 0 /\ prev = <<>>
    /\ now = 0 /\ completed = <<>> /\ overtaken = FALSE

InitReduce ==
    /\ \E n \in 0..MaxRows : \E f \in [1..n -> RowKinds \X (0..MaxTime)] :
         rdf = [i \in 1..n |-> TableRow(i, f[i][1], f[i][2])]
    /\ decimals \in 0..MaxDecimals
    /\ rout = [done |-> FALSE, rows |-> <<>>]
    /\ IdleTrain
    /\ IdleIc

NextReduce == reduce_results_df /\ UNCHANGED <<trainVars, icVars>>

SpecReduce == InitReduce /\ [][NextReduce]_vars

(***************************************************************************)
(* get_ic_params on every model and window within the bounds, called       *)
(* directly and from the try block of train_model.                         *)
(***************************************************************************)
ParamNames == {Ti0, Te0, Ci, Ria, A10}

\* lines 95-100 and 149-154: icout.raised / icout.value are what get_ic_params
\* gives; icout.tm is what train_model does next: it calls fit, runs its
\* handler, or is left by the exception
IC_Call ==
    /\ ~icout.done
    /\ LET ic == get_ic_params(icp, iccols, icwin)
       IN  icout' = [done |-> TRUE, raised |-> ic.raised, value |-> ic.value,
                     tm |-> IF ic.raised = "" THEN "fit"
                            ELSE IF Caught(ic.raised) THEN "handler"
                            ELSE "propagates"]
    /\ UNCHANGED <<icp, iccols, icwin>>

InitIc ==
    /\ icp \in SUBSET ParamNames
    /\ iccols \in SUBSET AllColumns
    /\ icwin \in Windows
    /\ icout = [done |-> FALSE, raised |-> "", value |-> <<>>, tm |-> ""]
    /\ IdleTrain
    /\ IdleReduce

NextIc == IC_Call /\ UNCHANGED <<trainVars, reduceVars>>

SpecIc == InitIc /\ [][NextIc]_vars

(***************************************************************************)
(* Properties of train_models and train_model.                             *)
(***************************************************************************)
K == Len(splits.items)
M == Len(models)
TaskTmpl(i) == Templates[Tasks[i].base]
TaskKey(i) == <<TaskTmpl(i), Tasks[i].idx>>
TaskIc(i) == get_ic_params(ParamKeys(TaskTmpl(i)), X_columns, Tasks[i].idx)
Tolerated == {"ok", "fit:ValueError"}
FirstIndexValue(w) == X_index[w[1]]
LastIndexValue(w) == X_index[w[Len(w)]]

\* C1: for every list of k >= 0 splits and m models the returned table has
\* exactly k*m records, split-major (row (s-1)*m+j is split s, model j), with
\* the index renumbered 0..k*m-1.
C1_SplitMajorKTimesM ==
    (status = "returned" /\ ~splits.isNone) =>
        /\ Len(df) = K * M
        /\ \A s \in 1..K : \A j \in 1..M :
             LET r == (s - 1) * M + j
             IN  /\ r \in DOMAIN df
                 /\ df[r].index = r - 1
                 /\ df[r].start_date = FirstIndexValue(splits.items[s][2])
                 /\ df[r].end_date = LastIndexValue(splits.items[s][2])
                 /\ df[r].model # NaN =>
                        heap[df[r].model[2]].tmpl = Templates[models[j]]

\* C3: a fit that raises ValueError gives one record with model, model_result
\* and error missing, its dates, method and a time >= 0 recorded; train_models
\* is not left by it, and the successful fits keep their full records.
C3_ToleratedFailure ==
    /\ \A i \in DOMAIN pc :
         (oracle[TaskKey(i)] = "fit:ValueError" /\ pc[i] \notin {"queued", "copied"}) =>
            /\ pc[i] = "done"
            /\ Len(frag[i]) = 1
            /\ frag[i][1].model = NaN
            /\ frag[i][1].model_result = NaN
            /\ frag[i][1].error = NaN
            /\ frag[i][1].start_date = FirstIndexValue(Tasks[i].idx)
            /\ frag[i][1].end_date = LastIndexValue(Tasks[i].idx)
            /\ frag[i][1].method = method
            /\ frag[i][1].time >= 0
    /\ status = "raised" =>
         \/ NTasks = 0
         \/ \E i \in DOMAIN pc :
              /\ pc[i] \in {"copied", "fitted"}
              /\ TaskIc(i).raised # "" \/ oracle[TaskKey(i)] \notin Tolerated
    /\ \A j \in DOMAIN pc :
         (pc[j] = "done" /\ oracle[TaskKey(j)] = "ok") =>
            /\ frag[j][1].model = Obj(model[j])
            /\ frag[j][1].error # NaN
            /\ frag[j][1].model_result # NaN

\* C3 witness: a returned table in which a failed fit's record is followed by
\* the record of a fit that succeeded.
C3_Witness ==
    /\ status = "returned"
    /\ \E i, j \in DOMAIN df :
         /\ i < j
         /\ df[i].model = NaN /\ oracle[TaskKey(i)] = "fit:ValueError"
         /\ df[j].model # NaN

\* C4: train_models either returns a table with one record for every submitted
\* pair, or raises and returns no table; a task whose get_ic_params, fit,
\* predict or metric raised anything but fit's ValueError never yields a record.
C4_TableOrRaise ==
    /\ status = "returned" =>
         /\ Len(df) = NTasks
         /\ \A i \in DOMAIN pc :
              /\ pc[i] = "done"
              /\ df[i].start_date = FirstIndexValue(Tasks[i].idx)
              /\ df[i].model \in {NaN, Obj(model[i])}
    /\ status = "raised" => (df = <<>> /\ exc # "")
    /\ \A i \in DOMAIN pc :
         /\ pc[i] = "done" => (TaskIc(i).raised = "" /\ oracle[TaskKey(i)] \in Tolerated)
         /\ pc[i] = "fitted" =>
              (TaskIc(i).raised = "" /\ oracle[TaskKey(i)] \notin
                                           {"unset", "fit:ValueError", "fit:RuntimeError"})

\* C4 witness: the batch was aborted by an exception after another fit had
\* already completed.
C4_Witness ==
    /\ status = "raised"
    /\ exc \in {"KeyError", "RuntimeError", "ValueError"}
    /\ \E i \in DOMAIN pc : pc[i] = "done" /\ frag[i][1].model # NaN

\* C5: train_model returns exactly one record; its start_date and end_date are
\* the first and last index values of the window in both outcomes; on success
\* it holds the fitted model, its prediction on the same window, the method
\* name and error = error_metric(y values, prediction.Z).
C5_OneRecord ==
    \A i \in DOMAIN pc :
        pc[i] = "done" =>
            LET w == Tasks[i].idx
                row == frag[i][1]
            IN  /\ Len(frag[i]) = 1
                /\ row.start_date = FirstIndexValue(w)
                /\ row.end_date = LastIndexValue(w)
                /\ row.method = method
                /\ oracle[TaskKey(i)] = "ok" =>
                     /\ row.model = Obj(model[i])
                     /\ heap[model[i]].tmpl = TaskTmpl(i)
                     /\ heap[model[i]].params \in {"fitted", "mutated"}
                     /\ heap[model[i]].fitargs = <<w, method, TaskIc(i).value>>
                     /\ row.model_result = <<"pred", PredictZ(TaskTmpl(i), w)>>
                     /\ row.error = Num(error_metric(YValues(w), row.model_result[2]))
                /\ oracle[TaskKey(i)] = "fit:ValueError" => row.model = NaN

\* C5 witness: a successful train_model on a two-row window whose first index
\* value is not its smallest.
C5_Witness ==
    \E i \in DOMAIN pc :
        /\ pc[i] = "done"
        /\ oracle[TaskKey(i)] = "ok"
        /\ Tasks[i].idx = <<2, 1>>
        /\ frag[i][1].time > 0

\* C6: the base models are never changed (not by a fit, a failed fit, or a
\* later change of a returned fitted model), and no two tasks hold the same
\* model instance, nor a base model.
C6_DeepCopyIsolation ==
    /\ \A b \in BaseIds : heap[b] = BaseObj(b)
    /\ \A i \in DOMAIN pc :
         pc[i] # "queued" =>
            /\ model[i] \notin BaseIds
            /\ heap[model[i]].tmpl = TaskTmpl(i)
            /\ \A j \in DOMAIN pc : (j # i /\ pc[j] # "queued") => model[j] # model[i]

\* C6 witness: one candidate model fitted for two splits concurrently, and a
\* returned fitted model changed by the caller.
C6_Witness ==
    /\ status = "returned"
    /\ n_jobs # 1
    /\ \E i, j \in DOMAIN pc :
         /\ i # j
         /\ Tasks[i].base = Tasks[j].base
         /\ heap[model[i]].params = "mutated"
         /\ heap[model[j]].params = "fitted"

\* C9: with splits=None the table has exactly len(models) records, record j
\* for model j, each spanning the first to the last index value of X_train and
\* fitted on all rows.
C9_NoSplits ==
    (status = "returned" /\ splits.isNone) =>
        /\ Len(df) = Len(models)
        /\ \A j \in 1..Len(models) :
             /\ df[j].index = j - 1
             /\ df[j].start_date = X_index[1]
             /\ df[j].end_date = X_index[Cardinality(Rows)]
             /\ heap[model[j]].tmpl = Templates[models[j]]
             /\ df[j].model \in {NaN, Obj(model[j])}
             /\ df[j].model # NaN =>
                    heap[model[j]].fitargs[1] = [r \in 1..Cardinality(Rows) |-> r]
             /\ df[j].model = NaN =>
                    oracle[<<Templates[models[j]], [r \in 1..Cardinality(Rows) |-> r]>>]
                        = "fit:ValueError"

\* C9 witness: two different models trained without splits, both fitted.
C9_Witness ==
    /\ status = "returned"
    /\ splits.isNone
    /\ Len(models) = 2
    /\ models[1] # models[2]
    /\ df[1].model # NaN
    /\ df[2].model # NaN

(***************************************************************************)
(* Properties of the serial and the pooled call (SpecPair).                *)
(***************************************************************************)
NoTime(t) == [i \in DOMAIN t |-> [t[i] EXCEPT !.time = 0]]

\* C2 (as claimed): the table of the pooled call equals the table of the serial
\* call on the same inputs, row by row and field by field (models by value).
C2_SameTable ==
    (ncall = 2 /\ status = "returned") => Deref(df) = prev

\* C2 (amended): the pooled call returns whenever the serial call did, and its
\* table equals the serial one row by row in every field but the elapsed time;
\* row (s-1)*m+j is the record of split s and model j under every completion
\* order.
C2_SameTableButTime ==
    /\ ncall = 2 => status # "raised"
    /\ (ncall = 2 /\ status = "returned") =>
         /\ NoTime(Deref(df)) = NoTime(prev)
         /\ \A i \in DOMAIN df : df[i].index = i - 1
         /\ ~splits.isNone /\ K >= 1 =>
              /\ Len(df) = K * M
              /\ \A s \in 1..K : \A j \in 1..M :
                   LET r == (s - 1) * M + j
                   IN  /\ df[r].start_date = FirstIndexValue(splits.items[s][2])
                       /\ df[r].end_date = LastIndexValue(splits.items[s][2])
                       /\ df[r].model # NaN =>
                              heap[df[r].model[2]].tmpl = Templates[models[j]]

\* C2 witness: the pooled call returned a table of two splits by two different
\* models after its tasks completed out of submission order.
C2_Witness ==
    /\ ncall = 2
    /\ status = "returned"
    /\ n_jobs # 1
    /\ overtaken
    /\ K = 2 /\ M = 2
    /\ models[1] # models[2]
    /\ splits.items[1] # splits.items[2]
    /\ \E i \in DOMAIN df : df[i].model = NaN
    /\ \E i \in DOMAIN df : df[i].model # NaN

(***************************************************************************)
(* Properties of reduce_results_df (SpecReduce).                           *)
(***************************************************************************)
\* the input records that are valid: no missing field, a finite error
ValidIn == {i \in DOMAIN rdf : ~HasNaN(rdf[i]) /\ ~IsInf(rdf[i].error)}
Rounded(i) == RoundHalfEven(rdf[i].error[2], decimals)
\* output row k is input record i, with its error rounded and a new index
SameRecord(k, i) ==
    /\ rout.rows[k].error = Num(Rounded(i))
    /\ \A c \in Columns \ {"error"} : rout.rows[k][c] = rdf[i][c]

\* C7: for each distinct rounded error of the valid input records the output
\* holds exactly one record, one of smallest elapsed time among the valid
\* records with that rounded error; the output is ascending in the rounded
\* error and indexed 0..n-1.
C7_FastestPerError ==
    rout.done =>
        /\ \A i \in ValidIn :
             /\ Cardinality({k \in DOMAIN rout.rows :
                                rout.rows[k].error = Num(Rounded(i))}) = 1
             /\ \E k \in DOMAIN rout.rows : \E j \in ValidIn :
                  /\ Rounded(j) = Rounded(i)
                  /\ SameRecord(k, j)
                  /\ \A l \in ValidIn : Rounded(l) = Rounded(i) => rdf[j].time <= rdf[l].time
        /\ Len(rout.rows) = Cardinality({Rounded(i) : i \in ValidIn})
        /\ \A k, l \in DOMAIN rout.rows :
             k < l => rout.rows[k].error[2] < rout.rows[l].error[2]
        /\ \A k \in DOMAIN rout.rows : rout.rows[k].index = k - 1

\* C7 witness: two valid records with different errors that round to the same
\* value, the slower one first in the table, beside a record of another error.
C7_Witness ==
    /\ rout.done
    /\ Len(rout.rows) = 2
    /\ \E i, j \in ValidIn :
         /\ i < j
         /\ rdf[i].error # rdf[j].error
         /\ Rounded(i) = Rounded(j)
         /\ rdf[j].time < rdf[i].time
         /\ \E k \in DOMAIN rout.rows : SameRecord(k, j)

\* C8: no output record has a missing or infinite field; every output record
\* is a valid input record (error rounded, index renumbered); no record with an
\* infinite error or of a failed fit is in the output.
C8_OnlyValidRecords ==
    rout.done =>
        /\ \A k \in DOMAIN rout.rows :
             /\ ~HasNaN(rout.rows[k])
             /\ ~IsInf(rout.rows[k].error)
             /\ \E i \in ValidIn : SameRecord(k, i)
        /\ \A i \in DOMAIN rdf \ ValidIn :
             \A k \in DOMAIN rout.rows :
                rout.rows[k].model # Obj(i) /\ rout.rows[k].model # NaN

\* C8 witness: a table with a record of infinite error, a record of negative
\* infinite error or of a failed fit, and a valid record that is kept.
C8_Witness ==
    /\ rout.done
    /\ \E i \in DOMAIN rdf : rdf[i].error = PosInf
    /\ \E i \in DOMAIN rdf : rdf[i].error = NegInf \/ rdf[i].model = NaN
    /\ Len(rout.rows) = 1

(***************************************************************************)
(* Properties of get_ic_params (SpecIc).                                   *)
(***************************************************************************)
\* the parameter names that contain the character '0'
Marked == {Ti0, Te0, A10}

C10_Mapping ==
    icout.done =>
        IF (icp \cap Marked) \subseteq iccols
        THEN /\ icout.raised = ""
             /\ DOMAIN icout.value = icp \cap Marked
             /\ \A key \in icp \cap Marked : icout.value[key] = X_cell(key, icwin[1])
             /\ icout.tm = "fit"
        ELSE /\ icout.raised = "KeyError"
             /\ icout.tm = "propagates"

\* C10: get_ic_params maps exactly the parameter names containing '0' to the
\* value of the same-named column in the first row of the window (none marked:
\* the empty mapping); a marked name that is no column is a KeyError that
\* neither get_ic_params nor train_model's handler catches; the model's
\* parameters and the window are left as they were.
C10_IcParams ==
    /\ []C10_Mapping
    /\ [][icp' = icp /\ iccols' = iccols /\ icwin' = icwin]_vars

\* C10 witness: a model with two marked and one unmarked parameter, every
\* marked one a column, on a window whose first row is not its last.
C10_Witness ==
    /\ icout.done
    /\ icout.raised = ""
    /\ Cardinality(icp \cap Marked) = 2
    /\ icp \ Marked # {}
    /\ Len(icwin) = 2
    /\ Cardinality(iccols) = 3

====
